---- MODULE Spec2Model ----
(***************************************************************************)
(* Model of the action handlers of libraries/chain/contracts/              *)
(* evt_contract.cpp: the ledger store (token database) is the state, each  *)
(* apply_evt_* handler is one action.                                      *)
(***************************************************************************)
EXTENDS Integers, Sequences, FiniteSets, TLC

VARIABLES
    domains,    \* tokendb domains: name -> domain_def
    groups,     \* tokendb groups: id -> group_def
    tokens,     \* tokendb tokens: <<domain, name>> -> owner
    accounts,   \* tokendb accounts: name -> account_def
    nTransfers, \* number of transferevt actions applied so far
    last        \* the last applied action: handler, payload and outcome

vars == <<domains, groups, tokens, accounts, nTransfers, last>>

----------------------------------------------------------------------------
(* Bounds of the model *)

\* width of share_type (int64_t in the program) in the model
BalanceBits == 16

\* number of transferevt actions the model applies
MaxTransfers == 3

\* asset(10000), the balance newaccount grants
StartBalance == 10000

\* longest group list of a permission and key list of a group offered to
\* the validation primitives
MaxListLen == 3

MaxInt == 2^(BalanceBits - 1) - 1
MinInt == -(2^(BalanceBits - 1))

\* two's complement wrap of an arithmetic result to the width of share_type
WrapInt(x) == ((x - MinInt) % 2^BalanceBits) + MinInt

InRange(x) == x >= MinInt /\ x <= MaxInt

\* config::system_account_name
system_account_name == "evt"

----------------------------------------------------------------------------
(* safemath: checked arithmetic. test_sub(a, b, r) and test_add(a, b, r)   *)
(* perform the operation with overflow detection: the result is stored in  *)
(* r and the return value tells whether it is representable.               *)

test_sub(a, b) == [ok |-> InRange(a - b), val |-> WrapInt(a - b)]

test_add(a, b) == [ok |-> InRange(a + b), val |-> WrapInt(a + b)]

----------------------------------------------------------------------------
(* Ledger store primitives for accounts *)

\* a store collection holding no record
NoRecords == [x \in {} |-> 0]

exists_account(db, name) == name \in DOMAIN db.accounts

read_account(db, name) == db.accounts[name]

add_account(db, account) ==
    [db EXCEPT !.accounts =
        [n \in (DOMAIN db.accounts) \cup {account.name} |->
            IF n = account.name
            THEN [creator |-> account.creator, balance |-> account.balance,
                  frozen_balance |-> account.frozen_balance, owner |-> account.owner]
            ELSE db.accounts[n]]]

\* updateaccount carries optional fields; only the ones the handler set
\* (ua.set) are written.
update_account(db, ua) ==
    [db EXCEPT !.accounts[ua.name] =
        [creator |-> @.creator,
         balance |-> IF "balance" \in ua.set THEN ua.balance ELSE @.balance,
         frozen_balance |-> @.frozen_balance,
         owner |-> IF "owner" \in ua.set THEN ua.owner ELSE @.owner]]

----------------------------------------------------------------------------
(* Outcomes of a handler: the store it leaves and the mutating store calls *)
(* it made, in order.                                                      *)

Rejected(db, msg) ==
    [result |-> "rejected", error |-> msg, store |-> db, calls |-> <<>>]

Applied(db, calls) ==
    [result |-> "ok", error |-> "", store |-> db, calls |-> calls]

\* the process stops inside the handler (signed overflow trapped by the build)
Aborted(db) ==
    [result |-> "abort", error |-> "", store |-> db, calls |-> <<>>]

----------------------------------------------------------------------------
(* Authorization oracle: authz is the set of scopes the authorization      *)
(* evidence of the action satisfies.                                       *)

has_authorized(authz, kind, key) == <<kind, key>> \in authz

----------------------------------------------------------------------------
(* Identifiers of the domain side *)

\* the empty group id: the owner pseudo-group
EmptyGroupId == 0

\* group_id::from_group_key: a one-way, injective mapping of a key to an id
from_group_key(key) == 10 + key

KW(k, w) == [key |-> k, weight |-> w]

GW(id, w) == [id |-> id, weight |-> w]

\* width of total_weight (uint32_t in the program) in the model
TotalWeightBits == 8

\* total_weight += weight wraps at the width of total_weight
Uint32(x) == x % (2^TotalWeightBits)

----------------------------------------------------------------------------
(* Validation primitives *)

\* the loop of validate(const permission_def&): i is the position reached,
\* total the weight accumulated so far; prev is groups[i - 1]
RECURSIVE validate_permission_loop(_, _, _)
validate_permission_loop(p, i, total) ==
    IF i > Len(p.groups) THEN total >= p.threshold
    ELSE IF i > 1 /\ p.groups[i - 1].id <= p.groups[i].id THEN FALSE
    ELSE IF p.groups[i].weight = 0 THEN FALSE
    ELSE validate_permission_loop(p, i + 1, Uint32(total + p.groups[i].weight))

\* a validation that compares adjacent ids with < and so lets a duplicate id
\* through
RECURSIVE validate_permission_nonstrict_loop(_, _, _)
validate_permission_nonstrict_loop(p, i, total) ==
    IF i > Len(p.groups) THEN total >= p.threshold
    ELSE IF i > 1 /\ p.groups[i - 1].id < p.groups[i].id THEN FALSE
    ELSE IF p.groups[i].weight = 0 THEN FALSE
    ELSE validate_permission_nonstrict_loop(p, i + 1, Uint32(total + p.groups[i].weight))

validate_permission_nonstrict(p) == validate_permission_nonstrict_loop(p, 1, 0)

validate_permission(p) == validate_permission_loop(p, 1, 0)

\* the loop of validate(const T& group), T a group_def or an updategroup
RECURSIVE validate_group_loop(_, _, _)
validate_group_loop(g, i, total) ==
    IF i > Len(g.keys) THEN total >= g.threshold
    ELSE IF i > 1 /\ (g.keys[i - 1].key < g.keys[i].key \/ g.keys[i - 1].key = g.keys[i].key)
         THEN FALSE
    ELSE IF g.keys[i].weight = 0 THEN FALSE
    ELSE validate_group_loop(g, i + 1, Uint32(total + g.keys[i].weight))

\* a validation that forgets the threshold == 0 test
validate_group_any_threshold(g) == validate_group_loop(g, 1, 0)

validate_group(g) ==
    IF g.threshold = 0 THEN FALSE ELSE validate_group_loop(g, 1, 0)

----------------------------------------------------------------------------
(* Ledger store primitives for domains, groups and tokens *)

exists_domain(db, name) == name \in DOMAIN db.domains

exists_group(db, id) == id \in DOMAIN db.groups

exists_token(db, domain, name) == <<domain, name>> \in DOMAIN db.tokens

add_domain(db, domain) ==
    [db EXCEPT !.domains =
        [n \in (DOMAIN db.domains) \cup {domain.name} |->
            IF n = domain.name
            THEN [issuer |-> domain.issuer, issue_time |-> domain.issue_time,
                  issue |-> domain.issue, transfer |-> domain.transfer,
                  manage |-> domain.manage]
            ELSE db.domains[n]]]

add_group(db, g) ==
    [db EXCEPT !.groups =
        [i \in (DOMAIN db.groups) \cup {g.id} |->
            IF i = g.id
            THEN [key |-> g.key, threshold |-> g.threshold, keys |-> g.keys]
            ELSE db.groups[i]]]

RECURSIVE add_groups(_, _, _)
add_groups(db, gs, i) ==
    IF i > Len(gs) THEN db ELSE add_groups(add_group(db, gs[i]), gs, i + 1)

update_group(db, ug) ==
    [db EXCEPT !.groups[ug.id] =
        [key |-> @.key, threshold |-> ug.threshold, keys |-> ug.keys]]

\* an optional permission (fc::optional) is a sequence of length 0 or 1
valid(opt) == Len(opt) > 0

\* update_domain(record) rewrites the Domain record of ud.name: the
\* permissions that were supplied replace the stored ones, every other field
\* keeps its value.  It is a primitive of the domain collection: it adds no
\* Group record.
update_domain(db, ud) ==
    [db EXCEPT !.domains[ud.name] =
        [issuer |-> @.issuer, issue_time |-> @.issue_time,
         issue |-> IF valid(ud.issue) THEN ud.issue[1] ELSE @.issue,
         transfer |-> IF valid(ud.transfer) THEN ud.transfer[1] ELSE @.transfer,
         manage |-> IF valid(ud.manage) THEN ud.manage[1] ELSE @.manage]]

\* issue_tokens creates one token per listed name, owned by it.owner
RECURSIVE issue_tokens_loop(_, _, _)
issue_tokens_loop(db, it, i) ==
    IF i > Len(it.names) THEN db
    ELSE issue_tokens_loop(
            [db EXCEPT !.tokens =
                [t \in (DOMAIN db.tokens) \cup {<<it.domain, it.names[i]>>} |->
                    IF t = <<it.domain, it.names[i]>> THEN it.owner ELSE db.tokens[t]]],
            it, i + 1)

issue_tokens(db, it) == issue_tokens_loop(db, it, 1)

transfer_token(db, tt) ==
    [db EXCEPT !.tokens[<<tt.domain, tt.name>>] = tt.to]

----------------------------------------------------------------------------
(* Group Resolver: the checker make_permission_checker returns.  The result *)
(* is the message of the first failed assertion, "" when there is none.     *)

defexisted(inline, id) == \E j \in 1..Len(inline) : inline[j].id = id

\* an owner-group assertion that lets the owner group into every permission
owner_allowed_everywhere(allowed_owner) == TRUE

\* line 67: EVT_ASSERT(allowed_owner, ...)
owner_allowed(allowed_owner) == allowed_owner

\* a resolver that accepts a group found in the store or inline, or in both
group_resolved_either(dbexisted, isdefined) == dbexisted \/ isdefined

\* line 73: EVT_ASSERT(dbexisted ^ defexisted, ...)
group_resolved(dbexisted, isdefined) == dbexisted # isdefined

RECURSIVE permission_checker(_, _, _, _, _)
permission_checker(db, inline, p, allowed_owner, i) ==
    IF i > Len(p.groups) THEN ""
    ELSE LET g == p.groups[i]
         IN IF g.id = EmptyGroupId
            THEN IF ~owner_allowed(allowed_owner)
                 THEN "Owner group is not allowed"
                 ELSE permission_checker(db, inline, p, allowed_owner, i + 1)
            ELSE IF ~group_resolved(exists_group(db, g.id), defexisted(inline, g.id))
                 THEN "Group is not valid, may already be defined or not provide defines"
                 ELSE permission_checker(db, inline, p, allowed_owner, i + 1)

\* the loop over the inline groups (lines 92-95 and 185-188)
RECURSIVE check_inline_groups(_, _)
check_inline_groups(gs, i) ==
    IF i > Len(gs) THEN ""
    ELSE IF ~validate_group(gs[i]) THEN "Group is not valid"
    ELSE IF gs[i].id # from_group_key(gs[i].key) THEN "Group id and key are not match"
    ELSE check_inline_groups(gs, i + 1)

add_group_calls(gs) == [i \in 1..Len(gs) |-> <<"add_group", gs[i].id>>]

----------------------------------------------------------------------------
(* apply_evt_newdomain *)

\* the assertions of lines 97-103 on the three permissions
newdomain_permissions_valid(nd) ==
    IF nd.issue.name # "issue" THEN "Name of issue permission is not valid"
    ELSE IF ~(nd.issue.threshold > 0 /\ validate_permission(nd.issue))
    THEN "Issue permission not valid"
    ELSE IF nd.transfer.name # "transfer" THEN "Name of transfer permission is not valid"
    ELSE IF ~(nd.transfer.threshold > 0 /\ validate_permission(nd.transfer))
    THEN "Transfer permission not valid"
    ELSE IF nd.manage.name # "manage" THEN "Name of manage permission is not valid"
    ELSE IF ~validate_permission(nd.manage) THEN "Manage permission not valid"
    ELSE ""

\* pchecker(issue, false); pchecker(transfer, true); pchecker(manage, false)
newdomain_pchecker(db, nd) ==
    LET e1 == permission_checker(db, nd.groups, nd.issue, FALSE, 1)
        e2 == permission_checker(db, nd.groups, nd.transfer, TRUE, 1)
        e3 == permission_checker(db, nd.groups, nd.manage, FALSE, 1)
    IN IF e1 # "" THEN e1 ELSE IF e2 # "" THEN e2 ELSE e3

\* an existence check that lets an existing name through
domain_absent_unchecked(db, name) == TRUE

\* line 90: !tokendb.exists_domain(ndact.name)
domain_absent(db, name) == ~exists_domain(db, name)

\* the assertions of apply_evt_newdomain in program order: the message of
\* the first that fails, "" when all pass
newdomain_checks(db, authz, nd) ==
    LET eg == check_inline_groups(nd.groups, 1)
        ep == newdomain_permissions_valid(nd)
    IN IF ~has_authorized(authz, "domain", nd.name)
       THEN "Authorized information doesn't match"
       ELSE IF ~domain_absent(db, nd.name) THEN "Domain already existed"
       ELSE IF eg # "" THEN eg
       ELSE IF nd.name = "" THEN "Domain name shouldn't be empty"
       ELSE IF ep # "" THEN ep
       ELSE newdomain_pchecker(db, nd)

apply_evt_newdomain(db, authz, nd, head_block_time) ==
    LET err == newdomain_checks(db, authz, nd)
    IN IF err # "" THEN Rejected(db, err)
       ELSE LET domain == [name |-> nd.name, issuer |-> nd.issuer,
                           issue_time |-> head_block_time,
                           issue |-> nd.issue, transfer |-> nd.transfer,
                           manage |-> nd.manage]
            IN Applied(add_groups(add_domain(db, domain), nd.groups, 1),
                       << <<"add_domain", nd.name>> >> \o add_group_calls(nd.groups))

(* apply_evt_issuetoken *)

\* the loop of lines 137-139: no requested name exists yet in the domain
RECURSIVE names_free_from(_, _, _, _)
names_free_from(db, domain, names, i) ==
    IF i > Len(names) THEN TRUE
    ELSE IF exists_token(db, domain, names[i]) THEN FALSE
    ELSE names_free_from(db, domain, names, i + 1)

\* a loop that stops after the first requested name
names_free_first_only(db, domain, names) ==
    Len(names) = 0 \/ ~exists_token(db, domain, names[1])

names_free(db, domain, names) == names_free_from(db, domain, names, 1)

apply_evt_issuetoken(db, authz, it) ==
    IF ~has_authorized(authz, it.domain, "issue") THEN Rejected(db, "Authorized information doesn't match")
    ELSE IF ~exists_domain(db, it.domain) THEN Rejected(db, "Domain not existed")
    ELSE IF it.owner = <<>> THEN Rejected(db, "Owner cannot be empty")
    ELSE IF ~names_free(db, it.domain, it.names) THEN Rejected(db, "Token already existed")
    ELSE Applied(issue_tokens(db, it),
                 [i \in 1..Len(it.names) |-> <<"add_token", it.domain, it.names[i]>>])

(* apply_evt_transfer *)

apply_evt_transfer(db, authz, tt) ==
    IF ~has_authorized(authz, tt.domain, tt.name) THEN Rejected(db, "Authorized information doesn't match")
    ELSE IF ~exists_token(db, tt.domain, tt.name) THEN Rejected(db, "Token not existed")
    ELSE Applied(transfer_token(db, tt), << <<"transfer_token", tt.domain, tt.name>> >>)

(* apply_evt_updategroup *)

apply_evt_updategroup(db, authz, ug) ==
    IF ~has_authorized(authz, "group", ug.id) THEN Rejected(db, "Authorized information doesn't match")
    ELSE IF ~exists_group(db, ug.id) THEN Rejected(db, "Group not existed")
    ELSE IF ~(Len(ug.keys) > 0) THEN Rejected(db, "Group must contains at least one key")
    ELSE IF ~validate_group(ug) THEN Rejected(db, "Updated group is not valid")
    ELSE Applied(update_group(db, ug), << <<"update_group", ug.id>> >>)

(* apply_evt_updatedomain *)

\* the three optional permissions of updatedomain, each checked when supplied
updatedomain_issue(db, ud) ==
    IF ~valid(ud.issue) THEN ""
    ELSE IF ud.issue[1].name # "issue" THEN "Name of issue permission is not valid"
    ELSE IF ~(ud.issue[1].threshold > 0 /\ validate_permission(ud.issue[1]))
    THEN "Issue permission not valid"
    ELSE permission_checker(db, ud.groups, ud.issue[1], FALSE, 1)

updatedomain_transfer(db, ud) ==
    IF ~valid(ud.transfer) THEN ""
    ELSE IF ud.transfer[1].name # "transfer" THEN "Name of transfer permission is not valid"
    ELSE IF ~(ud.transfer[1].threshold > 0 /\ validate_permission(ud.transfer[1]))
    THEN "Transfer permission not valid"
    ELSE permission_checker(db, ud.groups, ud.transfer[1], TRUE, 1)

updatedomain_manage(db, ud) ==
    IF ~valid(ud.manage) THEN ""
    ELSE IF ud.manage[1].name # "manage" THEN "Name of manage permission is not valid"
    ELSE IF ~validate_permission(ud.manage[1]) THEN "Manage permission not valid"
    ELSE permission_checker(db, ud.groups, ud.manage[1], FALSE, 1)

\* the assertions of apply_evt_updatedomain in program order
updatedomain_checks(db, authz, ud) ==
    LET eg == check_inline_groups(ud.groups, 1)
        e1 == updatedomain_issue(db, ud)
        e2 == updatedomain_transfer(db, ud)
        e3 == updatedomain_manage(db, ud)
    IN IF ~has_authorized(authz, ud.name, "manage")
       THEN "Authorized information doesn't match"
       ELSE IF ~exists_domain(db, ud.name) THEN "Domain is not existed"
       ELSE IF eg # "" THEN eg
       ELSE IF ud.name = "" THEN "Domain name shouldn't be empty"
       ELSE IF e1 # "" THEN e1
       ELSE IF e2 # "" THEN e2
       ELSE e3

\* a handler that loses the transfer permission of the action before it
\* updates the store
apply_evt_updatedomain_drops_transfer(db, authz, ud) ==
    LET err == updatedomain_checks(db, authz, ud)
    IN IF err # "" THEN Rejected(db, err)
       ELSE Applied(update_domain(db, [ud EXCEPT !.transfer = <<>>]),
                    << <<"update_domain", ud.name>> >>)

apply_evt_updatedomain(db, authz, ud) ==
    LET err == updatedomain_checks(db, authz, ud)
    IN IF err # "" THEN Rejected(db, err)
       ELSE Applied(update_domain(db, ud), << <<"update_domain", ud.name>> >>)

----------------------------------------------------------------------------
(* apply_evt_newaccount *)

\* a build of the account record that loses the owner given in the action
new_account_def_lost_owner(name, owner) ==
    [name |-> name, creator |-> system_account_name, balance |-> StartBalance,
     frozen_balance |-> 0, owner |-> <<>>]

\* lines 226-231: the account record newaccount builds
new_account_def(name, owner) ==
    [name |-> name,
     creator |-> system_account_name,
     balance |-> StartBalance,
     frozen_balance |-> 0,
     owner |-> owner]

apply_evt_newaccount(db, authz, name, owner) ==
    IF ~has_authorized(authz, "account", name) THEN Rejected(db, "Authorized information doesn't match")
    ELSE IF name = "" THEN Rejected(db, "Account name shouldn't be empty")
    ELSE IF exists_account(db, name) THEN Rejected(db, "Account already existed")
    ELSE LET account == new_account_def(name, owner)
         IN Applied(add_account(db, account), << <<"add_account", name>> >>)

(* apply_evt_updateowner *)

\* a handler that writes the owner before it checks that it is not empty
apply_evt_updateowner_write_first(db, authz, name, owner) ==
    LET ua == [name |-> name, owner |-> owner, balance |-> 0, set |-> {"owner"}]
    IN IF ~has_authorized(authz, "account", name)
       THEN Rejected(db, "Authorized information doesn't match")
       ELSE IF ~exists_account(db, name) THEN Rejected(db, "Account don't exist")
       ELSE IF ~(Len(owner) > 0)
       THEN Rejected(update_account(db, ua), "Owner cannot be empty")
       ELSE Applied(update_account(db, ua), << <<"update_account", name>> >>)

apply_evt_updateowner(db, authz, name, owner) ==
    IF ~has_authorized(authz, "account", name) THEN Rejected(db, "Authorized information doesn't match")
    ELSE IF ~exists_account(db, name) THEN Rejected(db, "Account don't exist")
    ELSE IF ~(Len(owner) > 0) THEN Rejected(db, "Owner cannot be empty")
    ELSE LET ua == [name |-> name, owner |-> owner, balance |-> 0, set |-> {"owner"}]
         IN Applied(update_account(db, ua), << <<"update_account", name>> >>)

(* apply_evt_transferevt.  onOverflow is what the build does on a signed   *)
(* overflow of the unchecked -= and += (lines 285-286): "wrap" or "trap".  *)

\* a balance check that lets every amount through
enough_balance_unchecked(balance, amount) == TRUE

\* line 279: facc.balance >= teact.amount
enough_balance(balance, amount) == balance >= amount

\* an overflow assertion that forgets the result of test_add
no_overflow_sub_only(r1, r2) == r1

\* line 284: r1 && r2
no_overflow(r1, r2) == r1 /\ r2

apply_evt_transferevt(db, authz, from, to, amount, onOverflow) ==
    IF ~has_authorized(authz, "account", from) THEN Rejected(db, "Authorized information doesn't match")
    ELSE IF ~exists_account(db, from) THEN Rejected(db, "Account don't exist")
    ELSE IF ~exists_account(db, to) THEN Rejected(db, "Account don't exist")
    ELSE IF ~(amount > 0) THEN Rejected(db, "Transfer amount must be positive")
    ELSE LET facc0 == read_account(db, from)
             tacc0 == read_account(db, to)
         IN IF ~enough_balance(facc0.balance, amount)
            THEN Rejected(db, "Account don't have enough balance left")
            ELSE LET r1 == test_sub(facc0.balance, amount)
                     r2 == test_add(tacc0.balance, amount)
                     \* third argument of test_sub / test_add: the result
                     \* lands in facc.balance.amount / tacc.balance.amount
                     fbal1 == r1.val
                     tbal1 == r2.val
                 IN IF ~no_overflow(r1.ok, r2.ok)
                    THEN Rejected(db, "Opeartions resulted in overflow results")
                    ELSE LET fbal2 == fbal1 - amount
                             tbal2 == tbal1 + amount
                             fua == [name |-> from, balance |-> WrapInt(fbal2),
                                     owner |-> <<>>, set |-> {"balance"}]
                             tua == [name |-> to, balance |-> WrapInt(tbal2),
                                     owner |-> <<>>, set |-> {"balance"}]
                         IN IF (~InRange(fbal2) \/ ~InRange(tbal2)) /\ onOverflow = "trap"
                            THEN Aborted(db)
                            ELSE Applied(update_account(update_account(db, fua), tua),
                                         << <<"update_account", from>>,
                                            <<"update_account", to>> >>)

----------------------------------------------------------------------------
(* Payloads offered to the domain, group and token handlers *)

\* domain names; "" is the empty name
DomainNames == {"", "d1", "d2"}

\* inline group definitions: G1, G1b, G2 are valid, the others break one rule
G1 == [id |-> 11, key |-> 1, threshold |-> 1, keys |-> <<KW(1, 1)>>]
G1b == [id |-> 11, key |-> 1, threshold |-> 1, keys |-> <<KW(2, 1)>>]
G2 == [id |-> 12, key |-> 2, threshold |-> 2, keys |-> <<KW(2, 1), KW(1, 1)>>]
GZeroThreshold == [G1 EXCEPT !.threshold = 0]
GBadId == [G1 EXCEPT !.id = 12]
GUnordered == [G1 EXCEPT !.keys = <<KW(1, 1), KW(2, 1)>>]
GDuplicate == [G1 EXCEPT !.keys = <<KW(1, 1), KW(1, 1)>>]
GZeroWeight == [G1 EXCEPT !.keys = <<KW(1, 0)>>]
GUnderweight == [G2 EXCEPT !.threshold = 3]

SmallGroupLists == {<<>>, <<G1>>, <<G1, G2>>, <<G2, G1b>>}

GroupLists ==
    SmallGroupLists \cup
    {<<G2>>, <<G1b>>, <<G1, G1b>>, <<GZeroThreshold>>, <<G1, GBadId>>, <<GUnordered>>,
     <<GDuplicate>>, <<GZeroWeight>>, <<GUnderweight>>}

\* permission shapes: <<threshold, groups>>
ShG1 == <<1, <<GW(11, 1)>>>>
ShG2 == <<1, <<GW(12, 1)>>>>
ShOwner == <<1, <<GW(EmptyGroupId, 1)>>>>
ShNone == <<0, <<>>>>
ShG2G1 == <<2, <<GW(12, 1), GW(11, 1)>>>>
ShUnordered == <<1, <<GW(11, 1), GW(12, 1)>>>>
ShDuplicate == <<1, <<GW(11, 1), GW(11, 1)>>>>
ShZeroWeight == <<1, <<GW(11, 0)>>>>
ShUnderweight == <<2, <<GW(11, 1)>>>>

PermShapes == {ShG1, ShOwner, ShNone, ShUnordered, ShDuplicate, ShZeroWeight,
               ShUnderweight}

Perm(name, sh) == [name |-> name, threshold |-> sh[1], groups |-> sh[2]]

\* the permissions offered for one slot: every shape under the slot's name
\* (the two-group shape for issue only), and one under a wrong name
SlotPerms(slot) ==
    {Perm(slot, sh) : sh \in PermShapes \cup (IF slot = "issue" THEN {ShG2G1} ELSE {})}
    \cup {Perm("wrong", ShG1)}

ND(n, k, i, t, m, gl) ==
    [name |-> n, issuer |-> k, issue |-> i, transfer |-> t, manage |-> m, groups |-> gl]

\* the authorization evidence offered with an action: none, or the scope given
Authz(kind, key) == {{}, {<<kind, key>>}}

Inputs(acts, authzs) == {[act |-> a, authz |-> z] : a \in acts, z \in authzs}

\* newdomain payloads: base payloads (issue by group 12 or by group 11) with
\* every group list, and payloads for "d1" with one permission slot varied
BaseNewDomainActs ==
    {ND(n, 1, Perm("issue", sh), Perm("transfer", ShOwner), Perm("manage", ShNone), gl) :
        n \in DomainNames, sh \in {ShG1, ShG2}, gl \in GroupLists}

VariedNewDomainActs ==
    {ND("d1", 2, p, Perm("transfer", ShOwner), Perm("manage", ShNone), gl) :
        p \in SlotPerms("issue"), gl \in SmallGroupLists}
    \cup {ND("d1", 2, Perm("issue", ShG1), p, Perm("manage", ShNone), gl) :
        p \in SlotPerms("transfer"), gl \in SmallGroupLists}
    \cup {ND("d1", 2, Perm("issue", ShG1), Perm("transfer", ShOwner), p, gl) :
        p \in SlotPerms("manage"), gl \in SmallGroupLists}

NewDomainActs == BaseNewDomainActs \cup VariedNewDomainActs

\* every payload with the evidence for its scope; the payloads without group
\* definitions also with no evidence
NewDomainInputs ==
    UNION {Inputs({nd}, {{<<"domain", nd.name>>}}) : nd \in NewDomainActs}
    \cup UNION {Inputs({nd}, {{}}) : nd \in {a \in BaseNewDomainActs : a.groups = <<>>}}

\* head_block_time() values
BlockTimes == {5}

UD(n, i, t, m, gl) ==
    [name |-> n, issue |-> i, transfer |-> t, manage |-> m, groups |-> gl]

\* updatedomain payloads: no permission with every group list, one permission
\* of "d1" supplied, and all three supplied
BaseUpdateDomainActs ==
    {UD(n, <<>>, <<>>, <<>>, gl) : n \in DomainNames, gl \in GroupLists}

VariedUpdateDomainActs ==
    {UD("d1", <<p>>, <<>>, <<>>, gl) : p \in SlotPerms("issue"), gl \in SmallGroupLists}
    \cup {UD("d1", <<>>, <<p>>, <<>>, gl) :
        p \in SlotPerms("transfer"), gl \in SmallGroupLists}
    \cup {UD("d1", <<>>, <<>>, <<p>>, gl) :
        p \in SlotPerms("manage"), gl \in SmallGroupLists}
    \cup {UD("d1", <<Perm("issue", ShG1)>>, <<Perm("transfer", ShG1)>>,
             <<Perm("manage", ShG1)>>, gl) : gl \in SmallGroupLists}

UpdateDomainActs == BaseUpdateDomainActs \cup VariedUpdateDomainActs

\* every payload with the evidence for scope (name, "manage"); the payloads
\* without group definitions also with evidence for ("domain", name) only,
\* and with none
UpdateDomainInputs ==
    UNION {Inputs({ud}, {{<<ud.name, "manage">>}}) : ud \in UpdateDomainActs}
    \cup UNION {Inputs({ud}, {{}, {<<"domain", ud.name>>}}) :
                ud \in {a \in BaseUpdateDomainActs : a.groups = <<>>}}

\* updategroup payloads: a valid definition and the invalid ones, for the
\* ids of G1 and G2 and for an id no group has
UpdateGroupActs ==
    {[id |-> id, threshold |-> d.threshold, keys |-> d.keys] :
        id \in {11, 12, 13},
        d \in {G1b, GZeroThreshold, GUnordered, GDuplicate, GZeroWeight,
               GUnderweight, [G1 EXCEPT !.keys = <<>>]}}

UpdateGroupInputs ==
    UNION {Inputs({ug}, Authz("group", ug.id)) : ug \in UpdateGroupActs}

\* token names, owner lists (user_list) and issuetoken / transfer payloads
TokenNames == {"t1", "t2"}

UserLists == {<<>>, <<1>>, <<2>>}

NameLists == {<<>>, <<"t1">>, <<"t2">>, <<"t1", "t2">>, <<"t1", "t1">>}

IssueTokenActs ==
    {[domain |-> d, names |-> ns, owner |-> o] :
        d \in DomainNames, ns \in NameLists, o \in UserLists}

TransferActs ==
    {[domain |-> d, name |-> n, to |-> o] :
        d \in DomainNames, n \in TokenNames, o \in UserLists}

IssueTokenInputs ==
    UNION {Inputs({it}, Authz(it.domain, "issue")) : it \in IssueTokenActs}

TransferInputs ==
    UNION {Inputs({tt}, Authz(tt.domain, tt.name)) : tt \in TransferActs}

\* the domain payloads of the token and whole-ledger specifications: "d1"
\* and "d2" issued by group 11, defined inline or already stored
BasicNewDomainInputs ==
    {in \in NewDomainInputs :
        /\ in.act \in BaseNewDomainActs
        /\ in.act.name # ""
        /\ in.act.issue = Perm("issue", ShG1)
        /\ in.act.groups \in {<<>>, <<G1>>}}

----------------------------------------------------------------------------
(* Payloads offered to the account handlers *)

\* account names; "" is the empty name
AccountNames == {"", "alice", "bob"}

\* owner lists (user_list: a vector of public keys) offered as account owners
AccountOwners == {<<>>, <<1>>}

\* transfer amounts
Amounts == {0, StartBalance \div 2, StartBalance}

NewAccountInputs ==
    UNION {Inputs({[name |-> n, owner |-> o]}, Authz("account", n)) :
            n \in AccountNames, o \in AccountOwners}

UpdateOwnerInputs == NewAccountInputs

\* onOverflow: what the build does on a signed overflow, "wrap" or "trap"
TransferEvtInputs ==
    UNION {Inputs({[from |-> f, to |-> t, amount |-> a, onOverflow |-> v]},
                  Authz("account", f)) :
            f \in AccountNames, t \in AccountNames, a \in Amounts,
            v \in {"wrap", "trap"}}

----------------------------------------------------------------------------
(* The payloads the whole-ledger specification applies: for every handler  *)
(* some that it accepts and some that it rejects                           *)

SmallNewAccountInputs ==
    {in \in NewAccountInputs : in.act.owner = <<1>> /\ in.act.name # ""}

SmallUpdateOwnerInputs ==
    {in \in UpdateOwnerInputs : in.act.name = "alice" /\ in.authz # {}}

SmallTransferEvtInputs ==
    {in \in TransferEvtInputs :
        /\ in.act.from = "alice" /\ in.act.to = "bob" /\ in.authz # {}
        /\ in.act.amount \in {0, StartBalance} /\ in.act.onOverflow = "wrap"}

SmallNewDomainInputs ==
    {in \in BasicNewDomainInputs : in.act.name = "d1"}

SmallUpdateDomainInputs ==
    {in \in UpdateDomainInputs :
        /\ in.act.name = "d1" /\ in.act.groups = <<>> /\ in.authz # {}
        /\ in.act.issue = <<>> /\ in.act.manage = <<>>
        /\ in.act.transfer \in {<<Perm("transfer", ShG1)>>, <<Perm("transfer", ShNone)>>}}

SmallUpdateGroupInputs ==
    {in \in UpdateGroupInputs :
        /\ in.act.id \in {11, 13} /\ in.authz # {} /\ in.act.keys = G1b.keys}

SmallIssueTokenInputs ==
    {in \in IssueTokenInputs :
        /\ in.act.domain = "d1" /\ in.authz # {} /\ in.act.owner = <<1>>
        /\ in.act.names \in {<<"t1">>, <<"t1", "t2">>}}

SmallTransferInputs ==
    {in \in TransferInputs :
        /\ in.act.domain = "d1" /\ in.authz # {} /\ in.act.to = <<2>>}

----------------------------------------------------------------------------
(* The state machine *)

tokendb == [domains |-> domains, groups |-> groups, tokens |-> tokens,
            accounts |-> accounts]

Init ==
    /\ domains = NoRecords
    /\ groups = NoRecords
    /\ tokens = NoRecords
    /\ accounts = NoRecords
    /\ nTransfers = 0
    /\ last = [op |-> "none", authz |-> {}, result |-> "none", error |-> "",
               calls |-> <<>>]

\* the handler's outcome becomes the new store
Commit(out, authz, descr) ==
    /\ domains' = out.store.domains
    /\ groups' = out.store.groups
    /\ tokens' = out.store.tokens
    /\ accounts' = out.store.accounts
    /\ last' = descr @@ [authz |-> authz, result |-> out.result,
                         error |-> out.error, calls |-> out.calls]

NewAccountOf(inputs) ==
    /\ \E in \in inputs :
        Commit(apply_evt_newaccount(tokendb, in.authz, in.act.name, in.act.owner),
               in.authz,
               [op |-> "newaccount", name |-> in.act.name, owner |-> in.act.owner])
    /\ UNCHANGED nTransfers

UpdateOwnerOf(inputs) ==
    /\ \E in \in inputs :
        Commit(apply_evt_updateowner(tokendb, in.authz, in.act.name, in.act.owner),
               in.authz,
               [op |-> "updateowner", name |-> in.act.name, owner |-> in.act.owner])
    /\ UNCHANGED nTransfers

TransferEvtOf(inputs) ==
    /\ nTransfers < MaxTransfers
    /\ \E in \in inputs :
        LET out == apply_evt_transferevt(tokendb, in.authz, in.act.from, in.act.to,
                                         in.act.amount, in.act.onOverflow)
        IN /\ Commit(out, in.authz,
                     [op |-> "transferevt", from |-> in.act.from,
                      to |-> in.act.to, amount |-> in.act.amount])
           /\ nTransfers' = IF out.result = "ok" THEN nTransfers + 1 ELSE nTransfers

NewDomainOf(inputs) ==
    /\ \E in \in inputs, head_block_time \in BlockTimes :
        Commit(apply_evt_newdomain(tokendb, in.authz, in.act, head_block_time), in.authz,
               [op |-> "newdomain", name |-> in.act.name])
    /\ UNCHANGED nTransfers

\* the permission slots an updatedomain supplies
SuppliedSlots(ud) ==
    {slot \in {"issue", "transfer", "manage"} : valid(ud[slot])}

UpdateDomainOf(inputs) ==
    /\ \E in \in inputs :
        Commit(apply_evt_updatedomain(tokendb, in.authz, in.act), in.authz,
               [op |-> "updatedomain", name |-> in.act.name,
                supplied |-> SuppliedSlots(in.act)])
    /\ UNCHANGED nTransfers

UpdateGroupOf(inputs) ==
    /\ \E in \in inputs :
        Commit(apply_evt_updategroup(tokendb, in.authz, in.act), in.authz,
               [op |-> "updategroup", id |-> in.act.id])
    /\ UNCHANGED nTransfers

IssueTokenOf(inputs) ==
    /\ \E in \in inputs :
        Commit(apply_evt_issuetoken(tokendb, in.authz, in.act), in.authz,
               [op |-> "issuetoken", domain |-> in.act.domain,
                names |-> in.act.names, owner |-> in.act.owner])
    /\ UNCHANGED nTransfers

TransferOf(inputs) ==
    /\ \E in \in inputs :
        Commit(apply_evt_transfer(tokendb, in.authz, in.act), in.authz,
               [op |-> "transfer", domain |-> in.act.domain, name |-> in.act.name,
                to |-> in.act.to])
    /\ UNCHANGED nTransfers

NewAccount == NewAccountOf(NewAccountInputs)

UpdateOwner == UpdateOwnerOf(UpdateOwnerInputs)

TransferEvt == TransferEvtOf(TransferEvtInputs)

NewDomain == NewDomainOf(NewDomainInputs)

UpdateDomain == UpdateDomainOf(UpdateDomainInputs)

UpdateGroup == UpdateGroupOf(UpdateGroupInputs)

IssueToken == IssueTokenOf(IssueTokenInputs)

Transfer == TransferOf(TransferInputs)

NewDomainBasic == NewDomainOf(BasicNewDomainInputs)

\* the account handlers
NextAccount == NewAccount \/ UpdateOwner \/ TransferEvt

SpecAccount == Init /\ [][NextAccount]_vars

\* the domain and group handlers
NextDomain == NewDomain \/ UpdateDomain \/ UpdateGroup

SpecDomain == Init /\ [][NextDomain]_vars

\* the token handlers, on domains created with the basic payloads
NextToken == NewDomainBasic \/ IssueToken \/ Transfer

SpecToken == Init /\ [][NextToken]_vars

\* the whole ledger: every handler, each with a few payloads
Next ==
    \/ NewDomainOf(SmallNewDomainInputs)
    \/ UpdateDomainOf(SmallUpdateDomainInputs)
    \/ UpdateGroupOf(SmallUpdateGroupInputs)
    \/ IssueTokenOf(SmallIssueTokenInputs)
    \/ TransferOf(SmallTransferInputs)
    \/ NewAccountOf(SmallNewAccountInputs)
    \/ UpdateOwnerOf(SmallUpdateOwnerInputs)
    \/ TransferEvtOf(SmallTransferEvtInputs)

Spec == Init /\ [][Next]_vars

----------------------------------------------------------------------------
(* The validation primitives on their own: a definition is drawn, then the *)
(* primitive is applied to it                                              *)

SeqsUpTo(S, n) == UNION {[1..k -> S] : k \in 0..n}

\* weights and thresholds offered to the validation primitives
ValidateWeights == {0, 1, 2}

ValidateThresholds == {0, 1, 2, 4}

\* permission definitions: every group list up to length n over the owner
\* group and two group ids
PermissionDefs(n) ==
    {Perm("issue", <<th, gs>>) :
        th \in ValidateThresholds,
        gs \in SeqsUpTo({GW(id, w) : id \in {EmptyGroupId, 11, 12}, w \in ValidateWeights},
                        n)}

\* group definitions (the fields validate reads): every key list up to
\* length n over three keys
GroupDefs(n) ==
    {[threshold |-> th, keys |-> ks] :
        th \in ValidateThresholds,
        ks \in SeqsUpTo({KW(k, w) : k \in 1..3, w \in ValidateWeights}, n)}

ValidateInputs(n) ==
    {[op |-> "input", kind |-> "permission", def |-> p] : p \in PermissionDefs(n)}
    \cup {[op |-> "input", kind |-> "group", def |-> g] : g \in GroupDefs(n)}

InitValidate ==
    /\ domains = NoRecords
    /\ groups = NoRecords
    /\ tokens = NoRecords
    /\ accounts = NoRecords
    /\ nTransfers = 0
    /\ last \in ValidateInputs(MaxListLen)

ValidatePermission ==
    /\ last.op = "input" /\ last.kind = "permission"
    /\ last' = [op |-> "validate_permission", def |-> last.def,
                result |-> validate_permission(last.def)]
    /\ UNCHANGED <<domains, groups, tokens, accounts, nTransfers>>

ValidateGroup ==
    /\ last.op = "input" /\ last.kind = "group"
    /\ last' = [op |-> "validate_group", def |-> last.def,
                result |-> validate_group(last.def)]
    /\ UNCHANGED <<domains, groups, tokens, accounts, nTransfers>>

NextValidate == ValidatePermission \/ ValidateGroup

SpecValidate == InitValidate /\ [][NextValidate]_vars

----------------------------------------------------------------------------
(* Properties of the account handlers, checked under SpecAccount *)

RECURSIVE SumBalances(_, _)
SumBalances(accts, names) ==
    IF names = {} THEN 0
    ELSE LET n == CHOOSE x \in names : TRUE
         IN accts[n].balance + SumBalances(accts, names \ {n})

\* the step just taken applied a transferevt
TransferApplied == last'.op = "transferevt" /\ last'.result = "ok"

\* C1: a successful transferevt(from, to, amount) with from # to decreases
\* from.balance by exactly amount and increases to.balance by exactly amount.
C1_TransferMovesAmount ==
    [][(TransferApplied /\ last'.from # last'.to) =>
        /\ accounts'[last'.from].balance = accounts[last'.from].balance - last'.amount
        /\ accounts'[last'.to].balance = accounts[last'.to].balance + last'.amount]_vars

\* C2: no action creates or destroys value: the sum of all balances is the
\* starting balance times the number of accounts created.
C2_SupplyConserved ==
    SumBalances(accounts, DOMAIN accounts) = StartBalance * Cardinality(DOMAIN accounts)

\* C3: a transferevt with from = to that passes every check is a no-op: the
\* stored balance after the action equals the balance before it.
C3_SelfTransferNoOp ==
    [][(TransferApplied /\ last'.from = last'.to) =>
        accounts'[last'.from].balance = accounts[last'.from].balance]_vars

\* C4: every stored account has balance >= 0 and frozen_balance >= 0.
C4_BalancesNonNegative ==
    \A n \in DOMAIN accounts :
        accounts[n].balance >= 0 /\ accounts[n].frozen_balance >= 0

\* C6: a transferevt with amount > from.balance is rejected and leaves the
\* balances (the whole account store) unchanged.
C6_InsufficientBalanceRejected ==
    [][(/\ last'.op = "transferevt"
        /\ last'.from \in DOMAIN accounts
        /\ last'.amount > accounts[last'.from].balance) =>
        (last'.result = "rejected" /\ accounts' = accounts)]_vars

\* a transferevt was rejected by the balance check: the amount exceeds the
\* (unchanged) balance of from
C6_Witness ==
    /\ last.op = "transferevt"
    /\ last.error = "Account don't have enough balance left"
    /\ last.from # last.to
    /\ last.amount > accounts[last.from].balance

\* C7: a transferevt where to.balance + amount is not representable in the
\* balance integer is rejected and writes neither balance.
C7_CreditOverflowRejected ==
    [][(/\ last'.op = "transferevt"
        /\ last'.from \in DOMAIN accounts
        /\ last'.to \in DOMAIN accounts
        /\ ~InRange(accounts[last'.to].balance + last'.amount)) =>
        (last'.result = "rejected" /\ accounts' = accounts)]_vars

\* a transferevt was rejected by the overflow assertion, the credit being
\* out of range
C7_Witness ==
    /\ last.op = "transferevt"
    /\ last.error = "Opeartions resulted in overflow results"
    /\ ~InRange(accounts[last.to].balance + last.amount)
    /\ accounts[last.from].balance >= last.amount

\* C10: after a successful newaccount(name, owner), reading the account
\* yields the starting balance, frozen_balance 0, the system account as
\* creator and the owner given in the action.
C10_NewAccountRoundTrip ==
    (last.op = "newaccount" /\ last.result = "ok") =>
        read_account(tokendb, last.name) =
            [creator |-> system_account_name, balance |-> StartBalance,
             frozen_balance |-> 0, owner |-> last.owner]

\* a newaccount with a non-empty owner was applied
C10_Witness ==
    last.op = "newaccount" /\ last.result = "ok" /\ last.owner = <<1>>

----------------------------------------------------------------------------
(* Properties of the domain handlers, checked under SpecDomain *)

\* the step just taken applied a newdomain to a name the store already held
NewDomainOnExisting == last'.op = "newdomain" /\ last'.name \in DOMAIN domains

\* C8 as stated: a newdomain for a name that already exists always fails with
\* the "already existed" error and leaves the stored domain unchanged.
C8_ExistingDomainAlreadyExisted ==
    [][NewDomainOnExisting =>
        /\ last'.result = "rejected"
        /\ last'.error = "Domain already existed"
        /\ domains' = domains]_vars

\* C8, amended: a newdomain for a name that already exists always fails and
\* leaves the store unchanged; when the action is authorized for scope
\* ("domain", name) it fails with the "already existed" error.
C8_ExistingDomainRejected ==
    [][NewDomainOnExisting =>
        /\ last'.result = "rejected"
        /\ domains' = domains /\ groups' = groups
        /\ (<<"domain", last'.name>> \in last'.authz =>
                last'.error = "Domain already existed")]_vars

\* an authorized newdomain was rejected because the name exists
C8_Witness ==
    /\ last.op = "newdomain"
    /\ <<"domain", last.name>> \in last.authz
    /\ last.name \in DOMAIN domains
    /\ last.error = "Domain already existed"

----------------------------------------------------------------------------
(* Properties of the token handlers, checked under SpecToken *)

\* the tokens an issuetoken action asks for
Requested(act) == {<<act.domain, act.names[i]>> : i \in 1..Len(act.names)}

\* C9: issuetoken is all-or-nothing: if a requested name already exists as a
\* token of the domain the action fails, no token is created and no owner is
\* changed; if it succeeds, every requested name is a token with the given
\* owner and no other token is created or changed.
C9_IssueTokenAllOrNothing ==
    [][last'.op = "issuetoken" =>
        /\ (Requested(last') \cap DOMAIN tokens # {}) => last'.result = "rejected"
        /\ last'.result # "ok" => tokens' = tokens
        /\ last'.result = "ok" =>
            /\ DOMAIN tokens' = DOMAIN tokens \cup Requested(last')
            /\ \A t \in Requested(last') : tokens'[t] = last'.owner
            /\ \A t \in DOMAIN tokens : tokens'[t] = tokens[t]]_vars

\* an issuetoken was rejected for a collision while another of its names was
\* free
C9_Witness ==
    /\ last.op = "issuetoken"
    /\ last.error = "Token already existed"
    /\ Requested(last) \ DOMAIN tokens # {}

----------------------------------------------------------------------------
(* Properties of all handlers, checked under Spec *)

\* a rejection leaves the store as it was and made no mutating store call
Untouched(out) ==
    out.result = "rejected" => (out.store = tokendb /\ out.calls = <<>>)

\* C5: every action a handler rejects leaves the whole store exactly as it
\* was: whatever the payload, in every reachable store, a rejecting handler
\* returns the store unchanged and has made no mutating store call.
C5_RejectedLeavesStore ==
    /\ \A in \in NewDomainInputs, t \in BlockTimes :
            Untouched(apply_evt_newdomain(tokendb, in.authz, in.act, t))
    /\ \A in \in UpdateDomainInputs :
            Untouched(apply_evt_updatedomain(tokendb, in.authz, in.act))
    /\ \A in \in UpdateGroupInputs :
            Untouched(apply_evt_updategroup(tokendb, in.authz, in.act))
    /\ \A in \in IssueTokenInputs :
            Untouched(apply_evt_issuetoken(tokendb, in.authz, in.act))
    /\ \A in \in TransferInputs :
            Untouched(apply_evt_transfer(tokendb, in.authz, in.act))
    /\ \A in \in NewAccountInputs :
            Untouched(apply_evt_newaccount(tokendb, in.authz, in.act.name, in.act.owner))
    /\ \A in \in UpdateOwnerInputs :
            Untouched(apply_evt_updateowner(tokendb, in.authz, in.act.name, in.act.owner))
    /\ \A in \in TransferEvtInputs :
            Untouched(apply_evt_transferevt(tokendb, in.authz, in.act.from, in.act.to,
                                            in.act.amount, in.act.onOverflow))

\* an action was rejected while the store held a domain, a group, a token
\* and two accounts
C5_Witness ==
    /\ last.result = "rejected"
    /\ last.calls = <<>>
    /\ DOMAIN domains # {} /\ DOMAIN groups # {} /\ DOMAIN tokens # {}
    /\ Cardinality(DOMAIN accounts) = 2

----------------------------------------------------------------------------
(* Properties of the Group Resolver, checked under SpecDomain *)

\* the non-empty group ids a permission references
Referenced(p) == {p.groups[i].id : i \in 1..Len(p.groups)} \ {EmptyGroupId}

\* the ids an inline group list defines
InlineIds(gs) == {gs[i].id : i \in 1..Len(gs)}

\* the permissions an updatedomain supplies
Supplied(ud) == {opt[1] : opt \in {o \in {ud.issue, ud.transfer, ud.manage} : valid(o)}}

\* every group the permissions reference is in exactly one of the store and
\* the inline list
ExactlyOneSource(perms, gs) ==
    \A p \in perms : \A id \in Referenced(p) :
        (id \in DOMAIN groups) # (id \in InlineIds(gs))

\* C11: a newdomain or updatedomain is accepted only if every non-empty group
\* id referenced by each checked permission is in exactly one of the store
\* and the action's inline groups; a reference in both or in neither is
\* rejected.
C11_GroupResolverExactlyOne ==
    /\ \A in \in NewDomainInputs, t \in BlockTimes :
            apply_evt_newdomain(tokendb, in.authz, in.act, t).result = "ok" =>
                ExactlyOneSource({in.act.issue, in.act.transfer, in.act.manage},
                                 in.act.groups)
    /\ \A in \in UpdateDomainInputs :
            apply_evt_updatedomain(tokendb, in.authz, in.act).result = "ok" =>
                ExactlyOneSource(Supplied(in.act), in.act.groups)

\* a newdomain was rejected by the resolver for a group that is both stored
\* and defined inline
C11_Witness ==
    /\ last.op = "newdomain"
    /\ last.error = "Group is not valid, may already be defined or not provide defines"
    /\ \E in \in NewDomainInputs, t \in BlockTimes :
        /\ in.act.name = last.name /\ in.authz = last.authz
        /\ apply_evt_newdomain(tokendb, in.authz, in.act, t).error = last.error
        /\ \E id \in Referenced(in.act.issue) :
                id \in DOMAIN groups /\ id \in InlineIds(in.act.groups)

----------------------------------------------------------------------------
(* Properties of the validation primitives, checked under SpecValidate *)

\* every element is greater than all that follow it (so none repeats)
StrictlyDescending(xs) == \A i, j \in 1..Len(xs) : i < j => xs[i] > xs[j]

\* the sum of the weights of a list of group_weight or key_weight
RECURSIVE TotalWeight(_)
TotalWeight(ws) == IF ws = <<>> THEN 0 ELSE Head(ws).weight + TotalWeight(Tail(ws))

HasZeroWeight(ws) == \E i \in 1..Len(ws) : ws[i].weight = 0

Ids(gs) == [i \in 1..Len(gs) |-> gs[i].id]

Keys(ks) == [i \in 1..Len(ks) |-> ks[i].key]

\* C12: validate_permission returns false if and only if the groups are not
\* in strictly descending id order (a duplicate id included), or some weight
\* is zero, or the total weight is less than the threshold.
C12_ValidatePermissionIff ==
    last.op = "validate_permission" =>
        (last.result = FALSE <=>
            \/ ~StrictlyDescending(Ids(last.def.groups))
            \/ HasZeroWeight(last.def.groups)
            \/ TotalWeight(last.def.groups) < last.def.threshold)

\* a permission of three groups was refused for a repeated id alone
C12_Witness ==
    /\ last.op = "validate_permission" /\ last.result = FALSE
    /\ Len(last.def.groups) = 3
    /\ last.def.groups[2].id = last.def.groups[3].id
    /\ last.def.groups[1].id > last.def.groups[2].id
    /\ ~HasZeroWeight(last.def.groups)
    /\ TotalWeight(last.def.groups) >= last.def.threshold

\* C13: validate_group returns false if and only if threshold = 0, or the
\* keys are not in strictly descending order (a duplicate key included), or
\* some weight is zero, or the total weight is less than the threshold.
C13_ValidateGroupIff ==
    last.op = "validate_group" =>
        (last.result = FALSE <=>
            \/ last.def.threshold = 0
            \/ ~StrictlyDescending(Keys(last.def.keys))
            \/ HasZeroWeight(last.def.keys)
            \/ TotalWeight(last.def.keys) < last.def.threshold)

\* a group of two well-ordered, weighted keys was refused for its zero
\* threshold alone
C13_Witness ==
    /\ last.op = "validate_group" /\ last.result = FALSE
    /\ last.def.threshold = 0
    /\ Len(last.def.keys) = 2
    /\ StrictlyDescending(Keys(last.def.keys))
    /\ ~HasZeroWeight(last.def.keys)

----------------------------------------------------------------------------
(* Properties of the domain handlers: C14 is checked under Spec, over every *)
(* updatedomain payload; the others under SpecDomain                       *)

\* the stored value of a slot after an updatedomain: the supplied permission,
\* or the value stored before
SlotAfter(old, ud, slot) == IF valid(ud[slot]) THEN ud[slot][1] ELSE old[slot]

C15_UpdateDomainDomainScope ==
    [][last'.op = "updatedomain" =>
        /\ last'.result = "ok" => <<"domain", last'.name>> \in last'.authz
        /\ <<"domain", last'.name>> \notin last'.authz =>
                last'.result = "rejected"]_vars

\* the permission lists the owner pseudo-group
HasOwnerGroup(p) == \E i \in 1..Len(p.groups) : p.groups[i].id = EmptyGroupId

\* C16: the owner pseudo-group (empty group id) is permitted in the transfer
\* permission only: no stored domain has an empty group id in its issue or
\* manage permission.
C16_OwnerGroupOnlyInTransfer ==
    \A n \in DOMAIN domains :
        ~HasOwnerGroup(domains[n].issue) /\ ~HasOwnerGroup(domains[n].manage)

\* a domain is stored with the owner group in its transfer permission, and
\* the last action was refused for an owner group in another permission
C16_Witness ==
    /\ last.error = "Owner group is not allowed"
    /\ \E n \in DOMAIN domains : HasOwnerGroup(domains[n].transfer)

\* C17: referential integrity of permissions: every non-empty group id
\* referenced by a stored domain's issue, transfer or manage permission exists
\* as a Group record in the store (the groups an updatedomain or a newdomain
\* defines inline are persisted by that action).
C17_ReferencedGroupsStored ==
    \A n \in DOMAIN domains :
        \A p \in {domains[n].issue, domains[n].transfer, domains[n].manage} :
            Referenced(p) \subseteq DOMAIN groups

\* the positions of the add_group calls in a handler's store calls
AddGroupCalls(calls) == {i \in 1..Len(calls) : calls[i][1] = "add_group"}

\* C18: a successful newdomain persists every inline group as a new Group
\* record: it never calls add_group for an id that was in the store before
\* the action, nor twice for the same id within one action, and it never
\* overwrites an existing Group record.
C18_NewDomainAddsNewGroupsOnce ==
    [][(last'.op = "newdomain" /\ last'.result = "ok") =>
        /\ \A i \in AddGroupCalls(last'.calls) :
                /\ last'.calls[i][2] \notin DOMAIN groups
                /\ \A j \in AddGroupCalls(last'.calls) \ {i} :
                        last'.calls[j][2] # last'.calls[i][2]
        /\ \A id \in DOMAIN groups : groups'[id] = groups[id]]_vars

----------------------------------------------------------------------------
(* Properties of the token handlers, checked under SpecToken *)

\* C19: token names are unique within a domain: an issuetoken that reaches
\* issue_tokens never asks the store to create a (domain, name) token that
\* already exists, nor the same (domain, name) twice in one action.
C19_IssueTokenCreatesFreshOnce ==
    [][(last'.op = "issuetoken" /\ last'.result = "ok") =>
        \A i \in 1..Len(last'.names) :
            /\ <<last'.domain, last'.names[i]>> \notin DOMAIN tokens
            /\ \A j \in 1..Len(last'.names) :
                    j # i => last'.names[j] # last'.names[i]]_vars

\* C20: every stored token has a non-empty owner.
C20_TokenOwnerNonEmpty ==
    \A t \in DOMAIN tokens : tokens[t] # <<>>

====
